---- MODULE Spec2Model ----
(***************************************************************************)
(* The two pysat instrument plug-ins of pysatModels, gemini3d and          *)
(* sami2py_sami2, as a state machine.  The state is each module's          *)
(* namespace (its registries, templates and entry points), the local file  *)
(* system, and the most recent call of the host framework together with    *)
(* what that call did: the exception it raised, the HTTP requests it made, *)
(* the files it wrote, the warnings and log records it emitted and the     *)
(* value it returned.                                                      *)
(*                                                                         *)
(* Python strings that the code formats, strips or indexes are sequences:  *)
(* a format template is a sequence of literal pieces and replacement       *)
(* fields, a URL part is a sequence of segments in which "/" is a segment  *)
(* of its own, an attribute name is a sequence of characters.  Strings     *)
(* that are only compared are TLA+ strings.                                *)
(***************************************************************************)
EXTENDS Integers, Sequences, FiniteSets, TLC

VARIABLES modules, files, call, result

vars == <<modules, files, call, result>>

\* ------------------------------------------------------------------ bounds
\* longest date_array handed to download
MaxDates == 2
\* most entries of a file's native 'ut' variable
MaxLen == 2
\* most global attributes of a file
MaxAttrs == 1

\* ------------------------------------------------------------ Python values
None == "<None>"

Gemini == "gemini3d"
Sami == "sami2py_sami2"
Modules == {Gemini, Sami}

Lit(s) == [kind |-> "lit", text |-> s, width |-> 0]
Field(n, w) == [kind |-> "field", text |-> n, width |-> w]

Func(params) == [kind |-> "function", params |-> params]
Partial(of, bound) == [kind |-> "partial", params |-> <<of, bound>>]

\* ------------------------------------------------------ gemini3d namespace
gemini_tags ==
    ("" :> "pygemini output file")
        @@ ("test" :> "Standard output of pygemini for benchmarking")

gemini_inst_ids == ("" :> <<"", "test">>)

gemini_test_dates ==
    ("" :> [tag \in DOMAIN gemini_tags |-> <<2012, 2, 20, 5, 0, 0>>])

gemini_test_download == ("" :> (("" :> FALSE) @@ ("test" :> TRUE)))

gemini_fname ==
    << Field("year", 4), Field("month", 2), Field("day", 2), Lit("_"),
       Field("hour*3600 + minute*60 + second", 5), Lit("."),
       Field("microsecond", 6), Lit(".h5") >>

gemini_supported_tags ==
    ("" :> (("" :> gemini_fname) @@ ("test" :> gemini_fname)))

GeminiNamespace ==
    ("platform" :> "pygemini")
        @@ ("name" :> "gemini3d")
        @@ ("tags" :> gemini_tags)
        @@ ("inst_ids" :> gemini_inst_ids)
        @@ ("pandas_format" :> FALSE)
        @@ ("_test_dates" :> gemini_test_dates)
        @@ ("_test_download" :> gemini_test_download)
        @@ ("init" :> Func(<<"self">>))
        @@ ("clean" :> Func(<<"self">>))
        @@ ("fname" :> gemini_fname)
        @@ ("supported_tags" :> gemini_supported_tags)
        @@ ("list_files" :> Partial("list_files", "supported_tags"))
        @@ ("load" :> Func(<<"fnames", "tag", "inst_id">>))
        @@ ("download" :>
                Func(<<"date_array", "tag", "inst_id", "data_path">>))

\* --------------------------------------------------- sami2py_sami2 namespace
sami_tags ==
    ("" :> "sami2py output file")
        @@ ("test" :> "Standard output of sami2py for benchmarking")

sami_sat_ids == ("" :> <<"">>)

sami_test_dates ==
    ("" :> [tag \in DOMAIN sami_tags |-> <<2019, 1, 1, 0, 0, 0>>])

sami_test_download == ("" :> (("" :> FALSE) @@ ("test" :> TRUE)))

sami_fname ==
    << Lit("sami2py_output_"), Field("year", 4), Lit("-"),
       Field("month", 2), Lit("-"), Field("day", 2), Lit(".nc") >>

sami_supported_tags ==
    ("" :> (("" :> sami_fname) @@ ("test" :> sami_fname)))

SamiNamespace ==
    ("platform" :> "sami2py")
        @@ ("name" :> "sami2")
        @@ ("tags" :> sami_tags)
        @@ ("sat_ids" :> sami_sat_ids)
        @@ ("_test_dates" :> sami_test_dates)
        @@ ("_test_download" :> sami_test_download)
        @@ ("pandas_format" :> FALSE)
        @@ ("fname" :> sami_fname)
        @@ ("supported_tags" :> sami_supported_tags)
        @@ ("list_files" :> Partial("list_files", "supported_tags"))
        @@ ("init" :> Func(<<"self">>))
        @@ ("load" :> Func(<<"fnames", "tag", "sat_id">>))
        @@ ("download" :>
                Func(<<"date_array", "tag", "sat_id", "data_path",
                       "user", "password">>))

ModuleNamespace(m) == IF m = Gemini THEN GeminiNamespace ELSE SamiNamespace

\* ---------------------------------------------------------- str.format
DigitChars == <<"0", "1", "2", "3", "4", "5", "6", "7", "8", "9">>

RECURSIVE Digits(_)
Digits(n) ==
    IF n < 10 THEN <<DigitChars[n + 1]>>
    ELSE Digits(n \div 10) \o <<DigitChars[(n % 10) + 1]>>

RECURSIVE Zeros(_)
Zeros(k) == IF k <= 0 THEN <<>> ELSE <<"0">> \o Zeros(k - 1)

\* format spec '0<w>d' of a non-negative integer
ZeroPad(n, w) == Zeros(w - Len(Digits(n))) \o Digits(n)

\* the replacement fields of template t that kw gives no value for
MissingKeys(t, kw) ==
    {i \in DOMAIN t : t[i].kind = "field" /\ t[i].text \notin DOMAIN kw}

RECURSIVE FormatFrom(_, _, _)
FormatFrom(t, kw, i) ==
    IF i > Len(t) THEN <<>>
    ELSE (IF t[i].kind = "lit" THEN <<t[i].text>>
          ELSE ZeroPad(kw[t[i].text], t[i].width))
         \o FormatFrom(t, kw, i + 1)

\* t.format(**kw), defined when MissingKeys(t, kw) = {} (KeyError otherwise)
Format(t, kw) == FormatFrom(t, kw, 1)

\* the characters of a template without replacement fields
RECURSIVE Text(_)
Text(t) == IF t = <<>> THEN <<>> ELSE <<Head(t).text>> \o Text(Tail(t))

\* s.strip('/')
RECURSIVE LStrip(_)
LStrip(s) == IF s # <<>> /\ Head(s) = "/" THEN LStrip(Tail(s)) ELSE s

RECURSIVE RStrip(_)
RStrip(s) ==
    IF s # <<>> /\ s[Len(s)] = "/" THEN RStrip(SubSeq(s, 1, Len(s) - 1))
    ELSE s

Strip(s) == RStrip(LStrip(s))

\* '/'.join(parts)
RECURSIVE Join(_)
Join(parts) ==
    IF Len(parts) = 0 THEN <<>>
    ELSE IF Len(parts) = 1 THEN parts[1]
    ELSE parts[1] \o <<"/">> \o Join(Tail(parts))

\* os.path.join(data_path, name) for a directory string and a relative name
PathJoin(data_path, name) == <<data_path, "/">> \o name

\* ------------------------------------------------------------ HTTP and dates
Statuses == {200, 404, 500}
Bodies == {"payload", "error page"}

NoResponse == [raised |-> FALSE, status |-> 0, body |-> ""]

\* what requests.get can do: answer with a status and a body, or raise
Responses ==
    [raised : {FALSE}, status : Statuses, body : Bodies]
        \cup {[raised |-> TRUE, status |-> 0, body |-> ""]}

TestDays ==
    { [year |-> 2019, month |-> 1, day |-> 1],
      [year |-> 2012, month |-> 2, day |-> 20] }

RECURSIVE SeqsUpTo(_, _)
SeqsUpTo(S, n) ==
    IF n = 0 THEN {<<>>}
    ELSE LET shorter == SeqsUpTo(S, n - 1)
         IN shorter \cup {Append(q, x) : q \in shorter, x \in S}

DateArrays == SeqsUpTo(TestDays, MaxDates)
Tags == {None, "", "test"}
Ids == {None, ""}
\* a data_path that is a string names an existing, writable directory
DataPaths == {None, "data"}

\* ------------------------------------------------------------------ download
\* what a call did, and the module namespace it leaves behind
Outcome(ns) ==
    [exc |-> "", requests |-> <<>>, writes |-> <<>>, warnings |-> <<>>,
     logs |-> <<>>, resp |-> NoResponse, ns |-> ns]

\* the part of an outcome that the host sees
Seen(r) == [k \in DOMAIN r \ {"ns"} |-> r[k]]

Raise(exc, ns) == [Outcome(ns) EXCEPT !.exc = exc]

IsTestTagMut(tag) == tag # ""

\* if tag == "test":
IsTestTag(tag) == tag = "test"

ShouldWriteMut(status) == status = 200

\* if req.status_code != 404:
ShouldWrite(status) == status # 404

DownloadDateMut(date_array) == date_array[Len(date_array)]

\* date = date_array[0]
DownloadDate(date_array) == date_array[1]

AssignFnameMut(ns, value) == [ns EXCEPT !["fname"] = value]

\* fname = "..." inside download binds a name local to the call: the
\* module namespace is the one the call started with
AssignFname(ns, value) == ns

\* the body shared by both modules' download; id is the inst_id / sat_id
\* parameter and resp is what requests.get does if it is reached
download_body(ns, remote_url, remote_path, fname, date_array, tag, id, data_path, resp) ==
    IF IsTestTag(tag)
    THEN IF Len(date_array) = 0
         THEN Raise("IndexError", ns)
         ELSE LET date == DownloadDate(date_array)
                  ns1 == AssignFname(ns, fname)
                  supported_tags == ns1["supported_tags"]
                  kw == ("year" :> date.year) @@ ("month" :> date.month)
                            @@ ("day" :> date.day)
              IN IF id \notin DOMAIN supported_tags
                 THEN Raise("KeyError", ns1)
                 ELSE IF tag \notin DOMAIN supported_tags[id]
                 THEN Raise("KeyError", ns1)
                 ELSE LET format_str == supported_tags[id][tag]
                      IN IF MissingKeys(format_str, kw) # {}
                         THEN Raise("KeyError", ns1)
                         ELSE IF data_path = None
                         THEN Raise("TypeError", ns1)
                         ELSE LET saved_local_fname ==
                                      PathJoin(data_path,
                                               Format(format_str, kw))
                                  url == Join(<<Strip(remote_url),
                                                Strip(remote_path),
                                                Text(fname)>>)
                                  got == [Outcome(ns1) EXCEPT
                                              !.requests = <<url>>,
                                              !.resp = resp]
                              IN IF resp.raised
                                 THEN [got EXCEPT !.exc = "ConnectionError"]
                                 ELSE IF ShouldWrite(resp.status)
                                 THEN [got EXCEPT !.writes =
                                          << [path |-> saved_local_fname,
                                              content |-> resp.body] >>]
                                 ELSE got
    ELSE [Outcome(ns) EXCEPT !.warnings =
             <<"Downloads currently only supported for test files.">>]

gemini_download(ns, date_array, tag, inst_id, data_path, resp) ==
    download_body(ns,
                  <<"https://www.zenodo.org/record", "/">>,
                  <<"4043048/files">>,
                  <<Lit("test2dew_fang.zip?download=1")>>,
                  date_array, tag, inst_id, data_path, resp)

sami_download(ns, date_array, tag, sat_id, data_path, resp) ==
    download_body(ns,
                  <<"https://github.com/sami2py/sami2py", "/">>,
                  <<"blob/main/sami2py/tests/test_data", "/">>,
                  <<Lit("sami2py_output.nc?raw=true")>>,
                  date_array, tag, sat_id, data_path, resp)

download(m, ns, date_array, tag, id, data_path, resp) ==
    IF m = Gemini
    THEN gemini_download(ns, date_array, tag, id, data_path, resp)
    ELSE sami_download(ns, date_array, tag, id, data_path, resp)

\* the file system is a set of [path, content] with one entry per path;
\* open(path, "wb").write(content) creates or replaces the entry of path
WriteFile(fs, path, content) ==
    {f \in fs : f.path # path} \cup {[path |-> path, content |-> content]}

\* the files after the writes of one call, in order
RECURSIVE ApplyWrites(_, _)
ApplyWrites(fs, writes) ==
    IF writes = <<>> THEN fs
    ELSE ApplyWrites(WriteFile(fs, Head(writes).path, Head(writes).content),
                     Tail(writes))

\* ---------------------------------------------------------------- input files
\* 'ut' values, in half seconds (1/7200 h): a negative one and a positive
\* one that are no whole seconds, and a whole second
UtValues == {0 - 3, 1, 2}
Uts == SeqsUpTo(UtValues, MaxLen)

\* attribute names and values, character by character
AttrNames == {<<"t">>, <<"t", "i">>, <<"t", "o", "p">>}
AttrValues == {<<"i">>, <<"r", "u", "n">>}

\* the global attributes of a file, in file order, no name twice
AttrLists ==
    {q \in SeqsUpTo([name : AttrNames, value : AttrValues], MaxAttrs) :
        \A i, j \in DOMAIN q : q[i].name = q[j].name => i = j}

\* a dataset as the netCDF / HDF5 reader returns it: the time-like variable
\* 'ut' and one physical variable of the same shape, each with attributes
Dataset(ut, attrs) ==
    [vars |-> ("ut" :> ut) @@ ("slt" :> ut),
     attrs |-> attrs,
     varattrs |-> ("ut" :> [units |-> "hours"])
                      @@ ("slt" :> [units |-> "decimal hours"])]

Datasets ==
    {Dataset(ut, <<>>) : ut \in Uts}
        \cup {Dataset(<<0>>, attrs) : attrs \in AttrLists}

\* ----------------------------------------------------------------------- load
\* int(x) of the quotient n / d, d > 0: rounds toward zero
Trunc(n, d) == IF n >= 0 THEN n \div d ELSE 0 - ((0 - n) \div d)

\* 05:00:00 of dt.datetime(2012, 2, 20, 5, 0, 0), in seconds of that day
GeminiEpoch == 18000

gemini_timeMut(val) == GeminiEpoch - Trunc(val * 3600, 7200)

\* dt.datetime(2012, 2, 20, 5, 0, 0) + dt.timedelta(seconds=int(val * 3600.0))
\* as seconds since 2012-02-20 00:00:00, for val hours given in half seconds
gemini_time(val) == GeminiEpoch + Trunc(val * 3600, 7200)

RECURSIVE gemini_times(_)
gemini_times(ut) ==
    IF ut = <<>> THEN <<>>
    ELSE <<gemini_time(Head(ut))>> \o gemini_times(Tail(ut))

gemini_load(ns, ds) ==
    [data |-> [vars |-> ("time" :> gemini_times(ds.vars["ut"])) @@ ds.vars,
               attrs |-> ds.attrs,
               varattrs |-> ds.varattrs],
     meta |-> [attrs |-> {}, vars |-> ds.varattrs]]
        @@ Outcome(ns)

\* data.rename({old: new}) on a mapping keyed by variable name
Rename(f, old, new) ==
    [k \in (DOMAIN f \ {old}) \cup {new} |->
        IF k = new THEN f[old] ELSE f[k]]

\* setattr(meta, name, value)
SetAttr(attrs, name, value) ==
    {a \in attrs : a.name # name} \cup {[name |-> name, value |-> value]}

\* for attr in data.attrs: setattr(meta, attr[0], attr[1])
\* iterating the attribute mapping yields its keys, so attr is a name and
\* attr[0], attr[1] are its first two characters
RECURSIVE MoveAttrs(_, _, _)
MoveAttrs(attrs, i, acc) ==
    IF i > Len(attrs) THEN [exc |-> "", attrs |-> acc]
    ELSE LET attr == attrs[i].name
         IN IF Len(attr) < 2 THEN [exc |-> "IndexError", attrs |-> acc]
            ELSE MoveAttrs(attrs, i + 1,
                           SetAttr(acc, <<attr[1]>>, <<attr[2]>>))

sami_load(ns, ds) ==
    LET data_vars == Rename(ds.vars, "ut", "time")
        varattrs == Rename(ds.varattrs, "ut", "time")
        moved == MoveAttrs(ds.attrs, 1, {})
    IN IF moved.exc # "" THEN Raise(moved.exc, ns)
       ELSE [data |-> [vars |-> data_vars, attrs |-> <<>>,
                      varattrs |-> varattrs],
             meta |-> [attrs |-> moved.attrs,
                       vars |-> [key \in DOMAIN data_vars |-> varattrs[key]]]]
                @@ Outcome(ns)

load(m, ns, ds) == IF m = Gemini THEN gemini_load(ns, ds) ELSE sami_load(ns, ds)

\* ---------------------------------------------------------------- init, clean
\* the pysat.Instrument the host hands to init
Instrument ==
    [acknowledgements |-> None, references |-> None,
     meta |-> [acknowledgments |-> None, references |-> None]]

gemini_init(ns, self) ==
    [self |-> [self EXCEPT !.acknowledgements = "Gemini3D acknowledgement",
                           !.references = ""]]
        @@ [Outcome(ns) EXCEPT !.logs = <<"Gemini3D acknowledgement">>]

sami_init(ns, self) ==
    [self |-> [self EXCEPT !.meta.acknowledgments = "SAMI2 acknowledgment",
                           !.meta.references = "SAMI2 references"]]
        @@ [Outcome(ns) EXCEPT !.logs = <<"SAMI2 acknowledgment">>]

gemini_clean(ns, self) ==
    [Outcome(ns) EXCEPT !.logs = <<"Cleaning not supported for Gemini3D">>]

\* list_files = functools.partial(<pysat list_files>, supported_tags=...):
\* the template the bound registry holds for (id, tag); the search of the
\* directory for files that match it is pysat's
list_files(ns, tag, id) ==
    LET supported_tags == ns["supported_tags"]
    IN IF id \in DOMAIN supported_tags /\ tag \in DOMAIN supported_tags[id]
       THEN [template |-> supported_tags[id][tag]] @@ Outcome(ns)
       ELSE Raise("ValueError", ns)

\* ------------------------------------------------------------------- actions
Init ==
    /\ modules = [m \in Modules |-> ModuleNamespace(m)]
    /\ files = {}
    /\ call = [op |-> "import"]
    /\ result = Seen(Outcome(None))

\* the host looks an entry point up by name in the module before calling it
Has(m, entry) == entry \in DOMAIN modules[m]

CallInit(m) ==
    /\ call' = [op |-> "init", module |-> m]
    /\ result' = Seen(IF m = Gemini
                       THEN gemini_init(modules[m], Instrument)
                       ELSE sami_init(modules[m], Instrument))
    /\ UNCHANGED <<modules, files>>

CallClean(m) ==
    /\ call' = [op |-> "clean", module |-> m]
    /\ result' = Seen(IF ~Has(m, "clean")
                       THEN Raise("AttributeError", modules[m])
                       ELSE gemini_clean(modules[m], Instrument))
    /\ UNCHANGED <<modules, files>>

CallListFiles(m, tag, id) ==
    /\ call' = [op |-> "list_files", module |-> m, tag |-> tag, id |-> id]
    /\ result' = Seen(list_files(modules[m], tag, id))
    /\ UNCHANGED <<modules, files>>

CallLoad(m, ds) ==
    /\ call' = [op |-> "load", module |-> m, file |-> ds]
    /\ result' = Seen(load(m, modules[m], ds))
    /\ UNCHANGED <<modules, files>>

\* requests.get answers only when the call gets as far as the request
Answers(m, date_array, tag, id, data_path) ==
    IF download(m, modules[m], date_array, tag, id, data_path,
                NoResponse).requests = <<>>
    THEN {NoResponse}
    ELSE Responses

CallDownload(m, date_array, tag, id, data_path) ==
    \E resp \in Answers(m, date_array, tag, id, data_path) :
        LET r == download(m, modules[m], date_array, tag, id, data_path, resp)
        IN /\ call' = [op |-> "download", module |-> m,
                       date_array |-> date_array, tag |-> tag, id |-> id,
                       data_path |-> data_path]
           /\ result' = Seen(r)
           /\ modules' = [modules EXCEPT ![m] = r.ns]
           /\ files' = ApplyWrites(files, r.writes)

\* gemini3d's load takes nothing but 'ut' from the file
LoadInputs(m) ==
    IF m = Gemini THEN {Dataset(ut, <<>>) : ut \in Uts} ELSE Datasets

Next ==
    \/ \E m \in Modules : CallInit(m)
    \/ \E m \in Modules : CallClean(m)
    \/ \E m \in Modules, tag \in Tags, id \in Ids : CallListFiles(m, tag, id)
    \/ \E m \in Modules : \E ds \in LoadInputs(m) : CallLoad(m, ds)
    \/ \E m \in Modules, date_array \in DateArrays, tag \in Tags, id \in Ids,
          data_path \in DataPaths :
            CallDownload(m, date_array, tag, id, data_path)

Spec == Init /\ [][Next]_vars

\* -------------------------------------------------------------------- claims
Ymd(date) ==
    ("year" :> date.year) @@ ("month" :> date.month) @@ ("day" :> date.day)

\* data_path joined with the (id, tag) template of the call's module,
\* formatted with the year, month and day of date_array[0]
ComputedPath(c) ==
    PathJoin(c.data_path,
             Format(modules[c.module]["supported_tags"][c.id][c.tag],
                    Ymd(c.date_array[1])))

\* (id, tag) has an entry in the module's supported_tags
Supported(m, id, tag) ==
    /\ id \in DOMAIN modules[m]["supported_tags"]
    /\ tag \in DOMAIN modules[m]["supported_tags"][id]

NonDecreasing(q) == \A i, j \in DOMAIN q : i <= j => q[i] <= q[j]

\* C1: a download with tag 'test', a supported inst_id / sat_id, a
\* non-empty date_array and a directory to write to, whose HTTP GET is
\* answered, returns without raising; it has written exactly the file at
\* the computed path when the status is 200 and nothing when it is 404.
C1_TestDownloadTwoOutcomes ==
    ( /\ call.op = "download"
      /\ call.tag = "test"
      /\ Supported(call.module, call.id, call.tag)
      /\ Len(call.date_array) >= 1
      /\ call.data_path # None
      /\ result.exc # "ConnectionError" )
    => /\ result.exc = ""
       /\ Len(result.requests) = 1
       /\ result.resp.status = 200 =>
              result.writes = << [path |-> ComputedPath(call),
                                  content |-> result.resp.body] >>
       /\ result.resp.status = 404 => result.writes = <<>>

\* C2: a download with any tag other than 'test' performs no HTTP request,
\* writes no file, emits exactly one warning and returns normally.
C2_NonTestTagOnlyWarns ==
    (call.op = "download" /\ call.tag # "test")
    => /\ result.requests = <<>>
       /\ result.writes = <<>>
       /\ Len(result.warnings) = 1
       /\ result.exc = ""

C2_Witness ==
    /\ call.op = "download"
    /\ call.tag = None
    /\ call.id = None
    /\ call.data_path = None
    /\ Len(call.date_array) = MaxDates
    /\ Len(result.warnings) = 1
    /\ files # {}

\* C3: a download, given dates, whose (tag, id) has no entry in
\* supported_tags emits a warning and returns without raising.
C3_UnsupportedOnlyWarns ==
    ( /\ call.op = "download"
      /\ Len(call.date_array) >= 1
      /\ ~Supported(call.module, call.id, call.tag) )
    => /\ Len(result.warnings) >= 1
       /\ result.exc = ""

\* C4 as stated: the 'time' coordinate that load returns has as many
\* entries as the file's 'ut' and is monotonically non-decreasing, for
\* every input file.
C4_TimeAlwaysMonotone ==
    (call.op = "load" /\ result.exc = "")
    => /\ Len(result.data.vars["time"]) = Len(call.file.vars["ut"])
       /\ NonDecreasing(result.data.vars["time"])

\* C4 amended: 'time' has as many entries as 'ut', entry for entry in file
\* order: sami2py_sami2 returns the 'ut' values themselves, gemini3d the
\* epoch 2012-02-20 05:00:00 plus the whole seconds of ut[i] hours, rounded
\* toward zero; so 'time' is non-decreasing whenever 'ut' is.
C4_TimeFollowsUt ==
    (call.op = "load" /\ result.exc = "")
    => LET ut == call.file.vars["ut"]
           time == result.data.vars["time"]
       IN /\ Len(time) = Len(ut)
          /\ call.module = Sami => time = ut
          /\ call.module = Gemini =>
                 \A i \in DOMAIN ut :
                     LET s == time[i] - GeminiEpoch
                     IN IF ut[i] >= 0
                        THEN 2 * s <= ut[i] /\ ut[i] < 2 * (s + 1)
                        ELSE 2 * (s - 1) < ut[i] /\ ut[i] <= 2 * s
          /\ NonDecreasing(ut) => NonDecreasing(time)

C4_Witness ==
    /\ call.op = "load"
    /\ call.module = Gemini
    /\ result.exc = ""
    /\ Len(call.file.vars["ut"]) >= 2
    /\ call.file.vars["ut"][1] < 0
    /\ call.file.vars["ut"][2] = 1
    /\ result.data.vars["time"][1] < result.data.vars["time"][2]

\* C5: every plug-in module exposes the same interface: the attributes
\* platform, name, tags, inst_ids and pandas_format and the entry points
\* init, clean, list_files, load(fnames, tag, inst_id) and
\* download(date_array, tag, inst_id, data_path).
C5_SamePluginInterface ==
    \A m \in Modules :
        /\ {"platform", "name", "tags", "inst_ids", "pandas_format", "init",
            "clean", "list_files", "load", "download"} \subseteq
               DOMAIN modules[m]
        /\ modules[m]["init"].params = <<"self">>
        /\ modules[m]["clean"].params = <<"self">>
        /\ modules[m]["load"].params = <<"fnames", "tag", "inst_id">>
        /\ SubSeq(modules[m]["download"].params, 1, 4) =
               <<"date_array", "tag", "inst_id", "data_path">>

\* C6: in a download that reaches the HTTP GET and gets an answer, the file
\* at the computed path is written if and only if the status is not 404,
\* its content is the response body, and every other file is as it was.
C6_WrittenIffNot404 ==
    [][ ( /\ call'.op = "download"
          /\ result'.requests # <<>>
          /\ ~result'.resp.raised )
        => /\ result'.exc = ""
           /\ files' = IF result'.resp.status # 404
                       THEN WriteFile(files, ComputedPath(call'),
                                      result'.resp.body)
                       ELSE files ]_vars

C6_Witness ==
    /\ call.op = "download"
    /\ result.resp.status = 500
    /\ result.resp.body = "error page"
    /\ [path |-> ComputedPath(call), content |-> "error page"] \in files
    /\ \E f \in files : f.content = "payload"

\* the one URL of each module
FixedUrl(m) ==
    IF m = Gemini
    THEN <<"https://www.zenodo.org/record", "/", "4043048/files", "/",
           "test2dew_fang.zip?download=1">>
    ELSE <<"https://github.com/sami2py/sami2py", "/",
           "blob/main/sami2py/tests/test_data", "/",
           "sami2py_output.nc?raw=true">>

\* C7: a download with a non-empty date_array performs at most one HTTP
\* GET, to the module's fixed URL, and writes at most one file; the call
\* does the same for every other date_array with the same first date.
C7_OnlyFirstDateMatters ==
    (call.op = "download" /\ Len(call.date_array) >= 1)
    => /\ Len(result.requests) <= 1
       /\ \A i \in DOMAIN result.requests :
              result.requests[i] = FixedUrl(call.module)
       /\ Len(result.writes) <= 1
       /\ \A other \in DateArrays :
              (Len(other) >= 1 /\ other[1] = call.date_array[1])
              => Seen(download(call.module, modules[call.module], other,
                               call.tag, call.id, call.data_path,
                               result.resp)) = result

C7_Witness ==
    /\ call.op = "download"
    /\ Len(call.date_array) >= 2
    /\ call.date_array[1] # call.date_array[2]
    /\ Len(result.requests) = 1
    /\ Len(result.writes) = 1

\* C8: when sami2py_sami2.load returns, every global attribute (name,
\* value) of the file is an attribute of meta with that name and value, the
\* returned dataset has no global attributes, and meta[key] is the
\* attribute mapping of every variable key of the dataset.
C8_MetadataLossless ==
    (call.op = "load" /\ call.module = Sami /\ result.exc = "")
    => /\ \A i \in DOMAIN call.file.attrs :
              [name |-> call.file.attrs[i].name,
               value |-> call.file.attrs[i].value] \in result.meta.attrs
       /\ result.data.attrs = <<>>
       /\ \A key \in DOMAIN result.data.vars :
              result.meta.vars[key] = result.data.varattrs[key]

Registries ==
    {"tags", "inst_ids", "sat_ids", "supported_tags", "fname",
     "_test_dates", "_test_download"}

\* C9: whatever has been called, and however it ended, the registries and
\* templates of both modules are the ones of module load time.
C9_RegistriesNeverChange ==
    \A m \in Modules :
        /\ DOMAIN modules[m] = DOMAIN ModuleNamespace(m)
        /\ \A n \in Registries \cap DOMAIN modules[m] :
               modules[m][n] = ModuleNamespace(m)[n]

C9_Witness ==
    /\ call.op = "download"
    /\ call.tag = "test"
    /\ result.exc = "KeyError"
    /\ files # {}

\* download(m, ...) with this id and tag gets as far as the HTTP GET for
\* some dates and directory
AttemptsGet(m, id, tag) ==
    \E date_array \in DateArrays, data_path \in DataPaths :
        download(m, modules[m], date_array, tag, id, data_path,
                 NoResponse).requests # <<>>

\* C10: in each module every tag of tags is allowed under some id of
\* inst_ids / sat_ids, every allowed (id, tag) has a template in
\* supported_tags and an entry in _test_dates and _test_download, and
\* _test_download[id][tag] is True exactly when download attempts a GET.
C10_RegistriesAgree ==
    \A m \in Modules :
        LET ns == modules[m]
            ids == IF "inst_ids" \in DOMAIN ns THEN ns["inst_ids"]
                   ELSE ns["sat_ids"]
        IN /\ \A tag \in DOMAIN ns["tags"] :
                  \E id \in DOMAIN ids : \E i \in DOMAIN ids[id] :
                      ids[id][i] = tag
           /\ \A id \in DOMAIN ids : \A i \in DOMAIN ids[id] :
                  LET tag == ids[id][i]
                  IN /\ Supported(m, id, tag)
                     /\ id \in DOMAIN ns["_test_dates"]
                     /\ tag \in DOMAIN ns["_test_dates"][id]
                     /\ id \in DOMAIN ns["_test_download"]
                     /\ tag \in DOMAIN ns["_test_download"][id]
                     /\ ns["_test_download"][id][tag] <=>
                            AttemptsGet(m, id, tag)

====
